---- MODULE Spec2Model ----
(***************************************************************************)
(* gdrive-webdav: the path-addressed file system over Google Drive         *)
(* (src/gdrive/gdrive.go) and its lookup cache (src/gdrive/cache.go).      *)
(*                                                                         *)
(* Paths and names are sequences of one-character strings, so that         *)
(* normalizePath, path.Dir and path.Base are computed and not assumed.     *)
(* A cache key is the prefix "file:" followed by a path or by a Drive id.  *)
(* Time is counted in seconds and advances TimeStep seconds at a time.     *)
(***************************************************************************)
EXTENDS Integers, Sequences, FiniteSets, TLC

\* ------------------------------------------------------------------ bounds

\* Ids the store may ever assign (the initial objects included).
MaxObjects == 6
\* Bytes one writable handle is given.
MaxWrites == 2
\* Seconds that pass in one step of the clock: longer than a listing is kept,
\* shorter than a path lookup is.
TimeStep == 45
\* Bytes one readable handle returns before it is rewound, and the bytes the
\* buffer given to Read holds.
MaxRead == 3
MaxBuf == 2

\* ------------------------------------------------------- program constants

\* time.Minute: TTL of a path lookup (cache.go:38, gdrive.go:240).
FileTTL == 60
\* 5*time.Second: TTL of a directory listing (gdrive.go:224).
DirTTL == 5

cacheKeyFile == <<"file:">>
cacheKeyDir == <<"file:">>

\* ------------------------------------------------------------------ values

Nil == [nil |-> TRUE]
ErrNil == "nil"
ErrNotExist == "ErrNotExist"
ErrExist == "ErrExist"
StoreError == "StoreError"
ErrEOF == "EOF"
ErrPanic == "panic"

SLASH == "/"
RootId == "R"

\* The drive.File that Files.Get("root") answers.
RootFile ==
  [id |-> RootId, name |-> <<>>, parent |-> "", folder |-> TRUE,
   trashed |-> FALSE, size |-> 0]

\* The fields of a stored object that a Files.List answer carries.
FileOf(o) ==
  [id |-> o.id, name |-> o.name, parent |-> o.parent, folder |-> o.folder,
   trashed |-> o.trashed, size |-> Len(o.content)]

\* ------------------------------------------------------------------- paths

RECURSIVE TrimRight(_, _)
\* strings.TrimRight(p, cutset) for a one-character cutset.
TrimRight(p, c) ==
  IF p # <<>> /\ p[Len(p)] = c THEN TrimRight(SubSeq(p, 1, Len(p) - 1), c) ELSE p

normalizePath(p) == TrimRight(p, SLASH)

\* Index of the last slash of p, 0 when there is none.
LastSlash(p) ==
  LET S == {i \in 1..Len(p) : p[i] = SLASH}
  IN IF S = {} THEN 0 ELSE CHOOSE i \in S : \A j \in S : j <= i

\* path.Clean on the paths that occur here (no "." or ".." element, no
\* doubled slash): trailing slashes go, the root stays "/", empty is ".".
PathClean(p) ==
  IF p = <<>> THEN <<".">>
  ELSE IF TrimRight(p, SLASH) = <<>> THEN <<SLASH>>
  ELSE TrimRight(p, SLASH)

\* path.Dir
PathDir(p) == PathClean(SubSeq(p, 1, LastSlash(p)))

\* path.Base
PathBase(p) ==
  IF p = <<>> THEN <<".">>
  ELSE LET q == TrimRight(p, SLASH)
       IN IF q = <<>> THEN <<SLASH>>
          ELSE SubSeq(q, LastSlash(q) + 1, Len(q))

\* ------------------------------------------------------------ remote store

\* Files.List().Q("'<parentID>' in parents and name=...") : the matching
\* objects in the store's order, trashed ones included.
StoreList(s, parentID, base, onlyFolder) ==
  SelectSeq(s, LAMBDA o : /\ o.parent = parentID
                          /\ o.name = base
                          /\ (onlyFolder => o.folder))

\* Files.List().Q("'<id>' in parents")
StoreChildren(s, id) == SelectSeq(s, LAMBDA o : o.parent = id)

StoreIds(s) == {s[i].id : i \in 1..Len(s)}

StoreObj(s, id) == s[CHOOSE i \in 1..Len(s) : s[i].id = id]

\* The store accepts a create only under an existing folder.
StoreCanCreate(s, parentID) ==
  \/ parentID = RootId
  \/ parentID \in StoreIds(s) /\ StoreObj(s, parentID).folder

RECURSIVE Under(_, _, _)
\* id lies in the subtree of top.
Under(s, id, top) ==
  \/ id = top
  \/ /\ id \in StoreIds(s)
     /\ StoreObj(s, id).parent # id
     /\ Under(s, StoreObj(s, id).parent, top)

\* Files.Delete(id): the object goes, and a folder takes its descendants along.
StoreDelete(s, id) == SelectSeq(s, LAMBDA o : ~Under(s, o.id, id))

\* The root cannot be deleted, nor an id the store does not hold.
StoreCanDelete(s, id) == id # RootId /\ id \in StoreIds(s)

\* ------------------------------------------------------------------- cache

CacheHas(c, key) == key \in DOMAIN c

CacheSet(c, key, val, ttl) ==
  [k \in DOMAIN c \cup {key} |->
     IF k = key THEN [val |-> val, ttl |-> ttl] ELSE c[k]]

CacheDelete(c, key) == [k \in DOMAIN c \ {key} |-> c[k]]

\* d seconds pass: an item is gone once the clock is past its expiration.
CacheAge(c, d) ==
  [k \in {x \in DOMAIN c : c[x].ttl >= d} |-> [c[k] EXCEPT !.ttl = @ - d]]

\* invalidatePath that deletes nothing.
invalidatePath_Noop(c, p) == c

invalidatePath(c, p) == CacheDelete(c, cacheKeyFile \o p)

\* ignoreFile that lets trashed files through.
ignoreFile_Never(f) == FALSE

ignoreFile(f) == f.trashed

\* ------------------------------------------------------------ remote calls

\* One request to the Drive API, as the operation's call log records it.
Call(op, id, name, folder, content, ok) ==
  [op |-> op, id |-> id, name |-> name, folder |-> folder,
   content |-> content, ok |-> ok]

\* fail names the kind of request the store fails during the operation
\* ("none": the store answers them all).
CallOk(op, fail) == op # fail

\* The create requests of a call log.
Creates(calls) == {i \in 1..Len(calls) : calls[i].op = "create"}

\* ---------------------------------------------------------------- resolution

\* What a lookup hands on: its answer, and the cache and call log it leaves.
Res(fp, err, c, calls) == [fp |-> fp, err |-> err, cache |-> c, calls |-> calls]

\* First answer of a Files.List that is not ignored, Nil when there is none.
FirstVisible(files) ==
  LET V == {i \in 1..Len(files) : ~ignoreFile(FileOf(files[i]))}
  IN IF V = {} THEN Nil
     ELSE FileOf(files[CHOOSE i \in V : \A j \in V : i <= j])

RECURSIVE getFile(_, _, _, _, _, _)
RECURSIVE getFile0(_, _, _, _, _, _)
RECURSIVE getFileID(_, _, _, _, _, _)

\* The end of getFile: the answer r of getFile0 is stored under key for ttl
\* seconds when its error is one of errs, and handed on.
getFileSet(key, r, errs, ttl) ==
  IF r.err \in errs
  THEN Res(r.fp, r.err,
           CacheSet(r.cache, key, [fp |-> r.fp, err |-> r.err], ttl),
           r.calls)
  ELSE r

\* getFile that stores nothing.
getFile_NoStore(c, calls, s, fail, p, onlyFolder) ==
  IF CacheHas(c, cacheKeyFile \o p)
  THEN Res(c[cacheKeyFile \o p].val.fp, c[cacheKeyFile \o p].val.err, c, calls)
  ELSE getFileSet(cacheKeyFile \o p, getFile0(c, calls, s, fail, p, onlyFolder),
                  {}, FileTTL)

\* getFile that keeps a lookup only as long as a listing.
getFile_ShortTTL(c, calls, s, fail, p, onlyFolder) ==
  IF CacheHas(c, cacheKeyFile \o p)
  THEN Res(c[cacheKeyFile \o p].val.fp, c[cacheKeyFile \o p].val.err, c, calls)
  ELSE getFileSet(cacheKeyFile \o p, getFile0(c, calls, s, fail, p, onlyFolder),
                  {ErrNil}, DirTTL)

\* getFile that stores failures too.
getFile_CacheErrors(c, calls, s, fail, p, onlyFolder) ==
  IF CacheHas(c, cacheKeyFile \o p)
  THEN Res(c[cacheKeyFile \o p].val.fp, c[cacheKeyFile \o p].val.err, c, calls)
  ELSE getFileSet(cacheKeyFile \o p, getFile0(c, calls, s, fail, p, onlyFolder),
                  {ErrNil, ErrNotExist, StoreError}, FileTTL)

\* fileSystem.getFile: the cached lookup of p, else getFile0, whose success
\* is cached for a minute.
getFile(c, calls, s, fail, p, onlyFolder) ==
  IF CacheHas(c, cacheKeyFile \o p)
  THEN Res(c[cacheKeyFile \o p].val.fp, c[cacheKeyFile \o p].val.err, c, calls)
  ELSE getFileSet(cacheKeyFile \o p, getFile0(c, calls, s, fail, p, onlyFolder),
                  {ErrNil}, FileTTL)

\* The end of getFileID: the id of getFile's answer r, "" on an error.
FileID(r) ==
  IF r.err # ErrNil
  THEN [id |-> "", err |-> r.err, cache |-> r.cache, calls |-> r.calls]
  ELSE [id |-> r.fp.file.id, err |-> ErrNil, cache |-> r.cache, calls |-> r.calls]

\* fileSystem.getFileID
getFileID(c, calls, s, fail, p, onlyFolder) ==
  FileID(getFile(c, calls, s, fail, p, onlyFolder))

\* getFile0 on the root: one Files.Get("root").
getRoot(c, calls, fail) ==
  LET ok == CallOk("get", fail)
      log == Append(calls, Call("get", "root", <<>>, FALSE, <<>>, ok))
  IN IF ~ok THEN Res(Nil, StoreError, c, log)
     ELSE Res([file |-> RootFile, path |-> <<SLASH>>, files |-> <<>>],
              ErrNil, c, log)

\* getFile0 below the root, once the parent's lookup pr is in: one Files.List
\* for the base name under the parent's id, the first file not ignored.
getChild(pr, s, fail, p, onlyFolder) ==
  IF pr.err # ErrNil THEN Res(Nil, pr.err, pr.cache, pr.calls)
  ELSE LET base == PathBase(p)
           ok == CallOk("list", fail)
           log == Append(pr.calls,
                         Call("list", pr.id, base, onlyFolder, <<>>, ok))
           file == FirstVisible(StoreList(s, pr.id, base, onlyFolder))
       IN IF ~ok THEN Res(Nil, StoreError, pr.cache, log)
          ELSE IF file = Nil THEN Res(Nil, ErrNotExist, pr.cache, log)
          ELSE Res([file |-> file, path |-> p, files |-> <<>>],
                   ErrNil, pr.cache, log)

\* fileSystem.getFile0: the root by Files.Get("root"); any other path by its
\* parent's id and one Files.List for the base name.
getFile0(c, calls, s, fail, p0, onlyFolder) ==
  IF normalizePath(p0) = <<>>
  THEN getRoot(c, calls, fail)
  ELSE getChild(getFileID(c, calls, s, fail, PathDir(normalizePath(p0)), TRUE),
                s, fail, normalizePath(p0), onlyFolder)

\* -------------------------------------------------------------------- state

VARIABLES
  store,     \* the Drive objects below the root, in the order the API lists them
  nextId,    \* the number the store gives the next object it creates
  cache,     \* fileSystem.cache: key -> [val, ttl], ttl the seconds left
  rfile,     \* the openReadonlyFile in use, or Nil
  rhist,     \* history of rfile: what its Reads returned and its stream produced
  wfile,     \* the openWritableFile in use, or Nil
  lastOp,    \* the answer the caller has not yet taken: what the operation was
             \* asked, what it answered and what it sent; NoOp between calls
  removed,   \* history: ids that RemoveAll deleted by their own path
  written,   \* history: the bytes given to Write on wfile, in call order
  closed,    \* history: Close has been called on wfile
  uploads,   \* history: the objects wfile's Closes have created
  procs      \* the calls running side by side: where each one is, what it holds

vars ==
  <<store, nextId, cache, rfile, rhist, wfile, lastOp, removed, written, closed,
    uploads, procs>>

\* The names the protocol layer asks for.
InputPaths ==
  { <<"/">>, <<"/", "a">>, <<"/", "b">>,
    <<"/", "a", "/", "a">>, <<"/", "a", "/", "b">>, <<"/", "b", "/", "a">> }

\* The folders it asks to list.
ListPaths == { <<"/">>, <<"/", "a">> }

\* The folders it asks to make.
MkdirPaths == { <<"/", "a">>, <<"/", "a", "/", "a">>, <<"/", "b", "/", "a">> }

\* The names it asks to remove.
RemovePaths == { <<"/", "a">>, <<"/", "a", "/", "b">> }

\* The names it asks for with and without a slash at the end.
SlashPaths ==
  { <<"/", "a">>, <<"/", "a", "/">>,
    <<"/", "a", "/", "b">>, <<"/", "a", "/", "b", "/">> }

\* The calls the protocol layer runs side by side, one goroutine each, the
\* names they are given and the bytes a handle closed side by side holds.
Procs == {1, 2}
RacePaths == { <<"/", "a", "/", "a">>, <<"/", "a", "/", "b">> }
RaceBytes == <<1>>

\* The file it writes, and the folder that holds it.
WritePaths == { <<"/", "a", "/", "b">> }
WriteDirs == { <<"/", "a">> }

\* The byte slices given to Write.
WriteChunks == { <<1>>, <<2>> }

\* The kinds of request an outage can hit, by operation.
StatFails == {"none", "get", "list"}
ListFails == {"none", "list"}
CreateFails == {"none", "create"}
CloseFails == {"none", "list", "create"}
DeleteFails == {"none", "delete"}
OpenFails == {"none", "list"}
ReadFails == {"none", "download"}

\* The names it opens for reading: the root folder and a file of two bytes.
ReadPaths == { <<"/">>, <<"/", "b">> }

\* The arguments it gives to Seek and to Readdir.
SeekOffsets == {0, 1}
SeekWhences == {0, 1, 2}
ReaddirCounts == {-1, 0, 1, 2}

Obj(id, name, parent, folder, trashed, content) ==
  [id |-> id, name |-> name, parent |-> parent, folder |-> folder,
   trashed |-> trashed, content |-> content]

\* /a is a folder holding a trashed b and, after it, a live b; /b is a file.
InitStore ==
  << Obj("1", <<"a">>, RootId, TRUE, FALSE, <<>>),
     Obj("2", <<"b">>, "1", FALSE, TRUE, <<2>>),
     Obj("3", <<"b">>, "1", FALSE, FALSE, <<1>>),
     Obj("4", <<"b">>, RootId, FALSE, FALSE, <<1, 2>>) >>

EmptyMap == [k \in {} |-> Nil]

\* Nothing read yet: no byte returned, no Close, no Seek, no end of file.
NoReads ==
  [got |-> <<>>, closed |-> FALSE,
   seeked |-> FALSE, rewound |-> FALSE, eof |-> FALSE]

\* A goroutine that serves no call.
NoCall ==
  [pc |-> "idle", op |-> "none", name |-> <<>>, fp |-> Nil, id |-> "",
   err |-> ErrNil, fail |-> "none", taken |-> FALSE, parentOk |-> FALSE,
   made |-> FALSE]

NoOp ==
  [op |-> "none", path |-> <<>>, p |-> <<>>, err |-> ErrNil, calls |-> <<>>,
   ret |-> {}, inval |-> {}, hit |-> FALSE, resolves |-> FALSE,
   existed |-> FALSE, parentOk |-> FALSE, first |-> FALSE, mutated |-> FALSE,
   changed |-> {}, data |-> <<>>, count |-> 0, offset |-> 0, whence |-> 0,
   pos |-> 0]

Init ==
  /\ store = InitStore
  /\ nextId = Len(InitStore) + 1
  /\ cache = EmptyMap
  /\ rfile = Nil
  /\ rhist = NoReads
  /\ wfile = Nil
  /\ lastOp = NoOp
  /\ removed = {}
  /\ written = <<>>
  /\ closed = FALSE
  /\ uploads = 0
  /\ procs = [p \in Procs |-> NoCall]

\* No call is under way.
Idle == lastOp.op = "none"

\* ------------------------------------------------------------- ground truth

RECURSIVE Truth(_, _)
\* The object a normalized path denotes in the store itself: the first
\* untrashed child of that name, level by level, Nil when there is none.
Truth(s, p) ==
  IF p = <<>> THEN RootFile
  ELSE IF p[1] # SLASH THEN Nil
  ELSE LET par == Truth(s, normalizePath(PathDir(p)))
           hits == StoreList(s, par.id, PathBase(p), FALSE)
           V == {i \in 1..Len(hits) : ~hits[i].trashed}
       IN IF par = Nil \/ ~par.folder \/ V = {} THEN Nil
          ELSE FileOf(hits[CHOOSE i \in V : \A j \in V : i <= j])

\* The keys whose cache item differs between c and d.
Changed(c, d) ==
  {k \in DOMAIN c \cup DOMAIN d :
     ~(k \in DOMAIN c /\ k \in DOMAIN d /\ c[k] = d[k])}

\* What every operation records about the state it started from.
Begin(op, path, p) ==
  [NoOp EXCEPT !.op = op, !.path = path, !.p = p,
               !.hit = CacheHas(cache, cacheKeyFile \o p),
               !.resolves = getFile(cache, <<>>, store, "none", p, FALSE).err = ErrNil,
               !.existed = Truth(store, normalizePath(p)) # Nil,
               !.parentOk = LET par == Truth(store, normalizePath(PathDir(normalizePath(p))))
                            IN par # Nil /\ par.folder]

\* --------------------------------------------------------------- operations

\* The caller takes the answer.
Return ==
  /\ ~Idle
  /\ lastOp' = NoOp
  /\ UNCHANGED <<procs, store, nextId, cache, rfile, rhist, wfile, removed, written, closed, uploads>>

\* The answer of a lookup r, recorded over b.
Looked(r, b) ==
  /\ cache' = r.cache
  /\ lastOp' = [b EXCEPT !.err = r.err, !.calls = r.calls,
                         !.ret = IF r.err = ErrNil THEN {r.fp.file} ELSE {},
                         !.changed = Changed(cache, r.cache)]

\* fileSystem.Stat: getFile on the name as given.
Stat(name, fail) ==
  /\ Idle
  /\ Looked(getFile(cache, <<>>, store, fail, name, FALSE),
            Begin("stat", name, name))
  /\ UNCHANGED <<procs, store, nextId, rfile, rhist, wfile, removed, written, closed, uploads>>

RECURSIVE WarmUp(_, _, _, _)
\* The loop of Readdir from its i-th file on: every file not ignored gets a
\* path lookup of its own, name + "/" + file.Name, for a minute.
WarmUp(c, files, i, name) ==
  IF i > Len(files) THEN c
  ELSE IF ignoreFile(files[i]) THEN WarmUp(c, files, i + 1, name)
  ELSE LET path == name \o <<SLASH>> \o files[i].name
       IN WarmUp(CacheSet(c, cacheKeyFile \o path,
                          [fp |-> [file |-> files[i], path |-> path, files |-> <<>>],
                           err |-> ErrNil],
                          FileTTL),
                 files, i + 1, name)

\* The files Readdir answers with.
Listed(files) == {files[i] : i \in {j \in 1..Len(files) : ~ignoreFile(files[j])}}

\* Files.List answers drive.File values.
FilesOf(objs) == [i \in 1..Len(objs) |-> FileOf(objs[i])]

\* The body of openReadonlyFile.Readdir on the handle f: the cached listing of
\* the handle's id, else one Files.List cached for five seconds; then the loop
\* over its files.
ReaddirRun(c, calls, s, fail, f) ==
  LET key == cacheKeyDir \o <<f.file.id>>
      found == CacheHas(c, key)
      ok == CallOk("list", fail)
      log == IF found THEN calls
             ELSE Append(calls, Call("list", f.file.id, <<"*">>, FALSE, <<>>, ok))
      fp == [file |-> f.file, path |-> <<f.file.id>>,
             files |-> FilesOf(StoreChildren(s, f.file.id))]
      aLookup == IF found THEN c[key].val ELSE [fp |-> fp, err |-> ErrNil]
      c1 == IF found THEN c ELSE CacheSet(c, cacheKeyDir \o fp.path, aLookup, DirTTL)
  IN IF ~found /\ ~ok
     THEN [err |-> StoreError, cache |-> c, calls |-> log, ret |-> {}]
     ELSE [err |-> ErrNil, cache |-> WarmUp(c1, aLookup.fp.files, 1, f.name),
           calls |-> log, ret |-> Listed(aLookup.fp.files)]

\* The handle OpenFile answers a lookup r with.
Handle(r, name) ==
  IF r.err = ErrNil
  THEN [file |-> r.fp.file, name |-> name, pos |-> 0, size |-> 0,
        contentReader |-> Nil]
  ELSE Nil

\* fileSystem.OpenFile with os.O_RDONLY: getFile on the normalized name.
OpenRead(name0, fail) ==
  /\ Idle
  /\ rfile = Nil
  /\ Looked(getFile(cache, <<>>, store, fail, normalizePath(name0), FALSE),
            Begin("open", name0, normalizePath(name0)))
  /\ rfile' = Handle(getFile(cache, <<>>, store, fail, normalizePath(name0), FALSE),
                     normalizePath(name0))
  /\ rhist' = NoReads
  /\ UNCHANGED <<procs, store, nextId, wfile, removed, written, closed, uploads>>

\* The answer of a listing d, recorded over b.
ReadDone(d, b) ==
  /\ cache' = d.cache
  /\ lastOp' = [b EXCEPT !.err = d.err, !.calls = d.calls, !.ret = d.ret,
                         !.changed = Changed(cache, d.cache)]

\* What Readdir was asked.
Asked(b, count) == [b EXCEPT !.count = count]

\* openReadonlyFile.Readdir: count is not looked at.
Readdir(count, fail) ==
  /\ Idle
  /\ rfile # Nil
  /\ ReadDone(ReaddirRun(cache, <<>>, store, fail, rfile),
              Asked(Begin("readdir", rfile.name, rfile.name), count))
  /\ UNCHANGED <<procs, store, nextId, rfile, rhist, wfile, removed, written, closed, uploads>>

\* openReadonlyFile.Close: the body is closed and the reader forgotten; the
\* handle stays with its holder.
CloseRead ==
  /\ Idle
  /\ rfile # Nil
  /\ rfile' = [rfile EXCEPT !.contentReader = Nil]
  /\ rhist' = [rhist EXCEPT !.closed = TRUE]
  /\ lastOp' = [NoOp EXCEPT !.op = "closer", !.path = rfile.name, !.p = rfile.name]
  /\ UNCHANGED <<procs, store, nextId, cache, wfile, removed, written, closed, uploads>>

\* The readable handle is let go.
DropRead ==
  /\ Idle
  /\ rfile # Nil
  /\ rfile' = Nil
  /\ rhist' = NoReads
  /\ UNCHANGED <<procs, store, nextId, cache, wfile, lastOp, removed, written, closed, uploads>>

\* Files.Get(id).Download() answers for a file the store holds.
CanDownload(s, id) == id \in StoreIds(s) /\ ~StoreObj(s, id).folder

\* openReadonlyFile.initContentReader: nothing when the handle has a reader,
\* else one download whose body becomes the reader.
initContentReader(f, s, fail) ==
  IF f.contentReader # Nil THEN [f |-> f, err |-> ErrNil, calls |-> <<>>]
  ELSE LET ok == CallOk("download", fail) /\ CanDownload(s, f.file.id)
       IN [f |-> IF ok
                 THEN [f EXCEPT !.contentReader =
                                  [content |-> StoreObj(s, f.file.id).content,
                                   off |-> 0]]
                 ELSE f,
           err |-> IF ok THEN ErrNil ELSE StoreError,
           calls |-> <<Call("download", f.file.id, <<>>, FALSE, <<>>, ok)>>]

\* The smaller of two numbers.
Min(a, b) == IF a < b THEN a ELSE b

\* io.Reader.Read of the body into a buffer of len bytes: at the end, no byte
\* and io.EOF; before it, up to n bytes, and io.EOF with them or not when
\* they are the last.
ReaderRead(cr, len, n, withEOF) ==
  LET left == Len(cr.content) - cr.off
      k == Min(Min(n, len), left)
  IN IF left = 0
     THEN [n |-> 0, data |-> <<>>, err |-> ErrEOF, cr |-> cr]
     ELSE [n |-> k,
           data |-> SubSeq(cr.content, cr.off + 1, cr.off + k),
           err |-> IF withEOF /\ k = left THEN ErrEOF ELSE ErrNil,
           cr |-> [cr EXCEPT !.off = @ + k]]

\* The end of Read, once the reader has answered x: an error is returned
\* with no byte, else the position moves by the bytes returned.
ReadGot(i, x) ==
  IF x.err # ErrNil
  THEN [f |-> [i.f EXCEPT !.contentReader = x.cr], n |-> 0, data |-> <<>>,
        err |-> x.err, calls |-> i.calls]
  ELSE [f |-> [i.f EXCEPT !.contentReader = x.cr, !.pos = @ + x.n],
        n |-> x.n, data |-> x.data, err |-> ErrNil, calls |-> i.calls]

\* The body of openReadonlyFile.Read, i the answer of initContentReader.
ReadRun(i, len, n, withEOF) ==
  IF i.err # ErrNil
  THEN [f |-> i.f, n |-> 0, data |-> <<>>, err |-> i.err, calls |-> i.calls]
  ELSE ReadGot(i, ReaderRead(i.f.contentReader, len, n, withEOF))

\* The answer r of a Read, recorded.
ReadAnswer(r, len) ==
  /\ Len(rhist.got) + Len(r.data) <= MaxRead
  /\ rfile' = r.f
  /\ rhist' = [rhist EXCEPT !.got = @ \o r.data,
                            !.eof = @ \/ r.err = ErrEOF]
  /\ lastOp' = [NoOp EXCEPT !.op = "read", !.path = rfile.name, !.p = rfile.name,
                            !.err = r.err, !.calls = r.calls, !.data = r.data,
                            !.count = len, !.pos = r.f.pos, !.first = ~rhist.eof]

\* openReadonlyFile.Read
Read(len, n, withEOF, fail) ==
  /\ Idle
  /\ rfile # Nil
  /\ ReadAnswer(ReadRun(initContentReader(rfile, store, fail), len, n, withEOF), len)
  /\ UNCHANGED <<procs, store, nextId, cache, wfile, removed, written, closed, uploads>>

\* The body of openReadonlyFile.Seek: whence 0 puts the position at 0, whence
\* 2 at the file's size, any other whence panics.
SeekRun(f, offset, whence) ==
  IF whence = 0 THEN [f |-> [f EXCEPT !.pos = 0], pos |-> 0, err |-> ErrNil]
  ELSE IF whence = 2
  THEN [f |-> [f EXCEPT !.size = f.file.size, !.pos = f.file.size],
        pos |-> f.file.size, err |-> ErrNil]
  ELSE [f |-> Nil, pos |-> 0, err |-> ErrPanic]

\* The history after a Seek: what is returned from now on is counted anew
\* after a Seek to the start with offset 0.
Sought(h, offset, whence) ==
  IF whence = 0 /\ offset = 0
  THEN [h EXCEPT !.got = <<>>, !.seeked = TRUE, !.rewound = TRUE]
  ELSE IF whence \in {0, 2}
  THEN [h EXCEPT !.seeked = TRUE, !.rewound = FALSE]
  ELSE NoReads

\* openReadonlyFile.Seek; the handle is lost with the call that panics.
Seek(offset, whence) ==
  /\ Idle
  /\ rfile # Nil
  /\ rfile' = SeekRun(rfile, offset, whence).f
  /\ rhist' = Sought(rhist, offset, whence)
  /\ lastOp' = [NoOp EXCEPT !.op = "seek", !.path = rfile.name, !.p = rfile.name,
                            !.err = SeekRun(rfile, offset, whence).err,
                            !.pos = SeekRun(rfile, offset, whence).pos,
                            !.offset = offset, !.whence = whence]
  /\ UNCHANGED <<procs, store, nextId, cache, wfile, removed, written, closed, uploads>>

\* Readdir on the handle that OpenFile answers the lookup r with; no handle,
\* no listing.
ReaddirOn(r, s, fail, name) ==
  IF r.err # ErrNil
  THEN [err |-> r.err, cache |-> r.cache, calls |-> r.calls, ret |-> {}]
  ELSE ReaddirRun(r.cache, r.calls, s, fail, Handle(r, name))

\* A listing as the protocol layer makes it: OpenFile read-only, Readdir on the
\* handle, Close, in one request.
ListChildren(name0, fail) ==
  /\ Idle
  /\ ReadDone(ReaddirOn(getFile(cache, <<>>, store, fail, normalizePath(name0), FALSE),
                        store, fail, normalizePath(name0)),
              Begin("list", name0, normalizePath(name0)))
  /\ UNCHANGED <<procs, store, nextId, rfile, rhist, wfile, removed, written, closed, uploads>>

\* What a mutating operation hands on.
Out(err, c, calls, s, inval) ==
  [err |-> err, cache |-> c, calls |-> calls, store |-> s, inval |-> inval]

\* Create that gives way when the name has been taken in the meantime.
Create_OnlyIfFree(r2, s, n, fail, name, folder, content) ==
  IF r2.err # ErrNil THEN Out(r2.err, r2.cache, r2.calls, s, {})
  ELSE IF r2.id = "" THEN Out(ErrNotExist, r2.cache, r2.calls, s, {})
  ELSE IF Truth(s, name) # Nil THEN Out(ErrExist, r2.cache, r2.calls, s, {})
  ELSE LET parent == PathDir(name)
           base == PathBase(name)
           ok == CallOk("create", fail) /\ StoreCanCreate(s, r2.id)
           log == Append(r2.calls,
                         Call("create", r2.id, base, folder, content, ok))
       IN IF ~ok THEN Out(StoreError, r2.cache, log, s, {})
          ELSE Out(ErrNil,
                   invalidatePath(invalidatePath(r2.cache, name), parent),
                   log,
                   Append(s, Obj(ToString(n), base, r2.id, folder, FALSE, content)),
                   {name, parent})

\* The end of Mkdir and of Close, once the parent's id r2 is in: one
\* Files.Create under it, then the two invalidations.
Create(r2, s, n, fail, name, folder, content) ==
  IF r2.err # ErrNil THEN Out(r2.err, r2.cache, r2.calls, s, {})
  ELSE IF r2.id = "" THEN Out(ErrNotExist, r2.cache, r2.calls, s, {})
  ELSE LET parent == PathDir(name)
           base == PathBase(name)
           ok == CallOk("create", fail) /\ StoreCanCreate(s, r2.id)
           log == Append(r2.calls,
                         Call("create", r2.id, base, folder, content, ok))
       IN IF ~ok THEN Out(StoreError, r2.cache, log, s, {})
          ELSE Out(ErrNil,
                   invalidatePath(invalidatePath(r2.cache, name), parent),
                   log,
                   Append(s, Obj(ToString(n), base, r2.id, folder, FALSE, content)),
                   {name, parent})

\* Mkdir once the lookup r1 of the name is in: an error other than
\* ErrNotExist is returned, a name that is taken is ErrExist.
MkdirNew(r1, s, n, fail, name) ==
  IF r1.err # ErrNil /\ r1.err # ErrNotExist
  THEN Out(r1.err, r1.cache, r1.calls, s, {})
  ELSE IF r1.err = ErrNil
  THEN Out(ErrExist, r1.cache, r1.calls, s, {})
  ELSE Create(getFileID(r1.cache, r1.calls, s, fail, PathDir(name), TRUE),
              s, n, fail, name, TRUE, <<>>)

\* The body of fileSystem.Mkdir on the normalized name; n numbers the new object.
MkdirRun(c, s, n, fail, name) ==
  MkdirNew(getFileID(c, <<>>, s, fail, name, FALSE), s, n, fail, name)

\* The outcome m of a mutating operation, recorded over b.
Mutated(m, b, first) ==
  /\ Len(m.store) > Len(store) => nextId <= MaxObjects
  /\ store' = m.store
  /\ nextId' = IF Len(m.store) > Len(store) THEN nextId + 1 ELSE nextId
  /\ cache' = m.cache
  /\ lastOp' = [b EXCEPT !.err = m.err, !.calls = m.calls, !.inval = m.inval,
                         !.first = first,
                         !.mutated = m.store # store,
                         !.changed = Changed(cache, m.cache)]

\* fileSystem.Mkdir
Mkdir(name0, fail) ==
  /\ Idle
  /\ Mutated(MkdirRun(cache, store, nextId, fail, normalizePath(name0)),
             Begin("mkdir", name0, normalizePath(name0)), FALSE)
  /\ UNCHANGED <<procs, rfile, rhist, wfile, removed, written, closed, uploads>>

\* fileSystem.OpenFile with os.O_RDWR|os.O_CREATE|os.O_TRUNC: a handle on the
\* normalized name, nothing looked up.
OpenWrite(name0) ==
  /\ Idle
  /\ wfile = Nil
  /\ wfile' = [name |-> normalizePath(name0), buffer |-> <<>>, size |-> 0]
  /\ written' = <<>>
  /\ closed' = FALSE
  /\ uploads' = 0
  /\ UNCHANGED <<procs, store, nextId, cache, rfile, rhist, lastOp, removed>>

\* bytes.Buffer.Write followed by the size count.
BufferWrite(f, bytes) ==
  [f EXCEPT !.buffer = @ \o bytes, !.size = @ + Len(bytes)]

\* openWritableFile.Write: sends nothing.
Write(bytes) ==
  /\ Idle
  /\ wfile # Nil
  /\ Len(written) + Len(bytes) <= MaxWrites
  /\ wfile' = BufferWrite(wfile, bytes)
  /\ written' = written \o bytes
  /\ lastOp' = [NoOp EXCEPT !.op = "write", !.path = wfile.name, !.p = wfile.name]
  /\ UNCHANGED <<procs, store, nextId, cache, rfile, rhist, removed, closed, uploads>>

\* Close that uploads without asking whether the name is taken.
CloseRun_NoExistCheck(c, s, n, fail, f) ==
  Create(getFileID(c, <<>>, s, fail, PathDir(f.name), TRUE),
         s, n, fail, f.name, FALSE, f.buffer)

\* Close once the lookup r1 of the name is in: an error other than
\* ErrNotExist is returned, a name that is taken is ErrExist.
CloseNew(r1, s, n, fail, f) ==
  IF r1.err # ErrNil /\ r1.err # ErrNotExist
  THEN Out(r1.err, r1.cache, r1.calls, s, {})
  ELSE IF r1.id # ""
  THEN Out(ErrExist, r1.cache, r1.calls, s, {})
  ELSE Create(getFileID(r1.cache, r1.calls, s, fail, PathDir(f.name), TRUE),
              s, n, fail, f.name, FALSE, f.buffer)

\* The body of openWritableFile.Close; n numbers the new object.
CloseRun(c, s, n, fail, f) ==
  CloseNew(getFileID(c, <<>>, s, fail, f.name, FALSE), s, n, fail, f)

\* The buffer after Close: the upload reads it empty; a request that failed
\* may or may not have read it.
Drained(m, f) ==
  (IF Creates(m.calls) # {} THEN {[f EXCEPT !.buffer = <<>>]} ELSE {})
    \cup (IF m.err # ErrNil THEN {f} ELSE {})

\* openWritableFile.Close
Close(fail) ==
  /\ Idle
  /\ wfile # Nil
  /\ Mutated(CloseRun(cache, store, nextId, fail, wfile),
             Begin("close", wfile.name, wfile.name), ~closed)
  /\ wfile' \in Drained(CloseRun(cache, store, nextId, fail, wfile), wfile)
  /\ closed' = TRUE
  /\ uploads' = uploads + Len(CloseRun(cache, store, nextId, fail, wfile).store)
                       - Len(store)
  /\ UNCHANGED <<procs, rfile, rhist, removed, written>>

\* The writable handle is let go.
DropWrite ==
  /\ Idle
  /\ wfile # Nil
  /\ wfile' = Nil
  /\ written' = <<>>
  /\ closed' = FALSE
  /\ uploads' = 0
  /\ UNCHANGED <<procs, store, nextId, cache, rfile, rhist, lastOp, removed>>

\* RemoveAll once the id r of the name is in: one Files.Delete, then the two
\* invalidations.
Delete(r, s, fail, name) ==
  IF r.err # ErrNil THEN Out(r.err, r.cache, r.calls, s, {})
  ELSE LET ok == CallOk("delete", fail) /\ StoreCanDelete(s, r.id)
           log == Append(r.calls, Call("delete", r.id, <<>>, FALSE, <<>>, ok))
       IN IF ~ok THEN Out(StoreError, r.cache, log, s, {})
          ELSE Out(ErrNil,
                   invalidatePath(invalidatePath(r.cache, name), PathDir(name)),
                   log, StoreDelete(s, r.id), {name, PathDir(name)})

\* The body of fileSystem.RemoveAll on the normalized name.
RemoveRun(c, s, fail, name) ==
  Delete(getFileID(c, <<>>, s, fail, name, FALSE), s, fail, name)

\* The ids deleted so far, with the one the outcome m deleted.
Removed(m) ==
  IF m.err = ErrNil THEN removed \cup {m.calls[Len(m.calls)].id} ELSE removed

\* fileSystem.RemoveAll
RemoveAll(name0, fail) ==
  /\ Idle
  /\ Mutated(RemoveRun(cache, store, fail, normalizePath(name0)),
             Begin("remove", name0, normalizePath(name0)), FALSE)
  /\ removed' = Removed(RemoveRun(cache, store, fail, normalizePath(name0)))
  /\ UNCHANGED <<procs, rfile, rhist, wfile, written, closed, uploads>>

\* Time passes; what has expired is gone.
Tick ==
  /\ Idle
  /\ cache' = CacheAge(cache, TimeStep)
  /\ UNCHANGED <<procs, store, nextId, rfile, rhist, wfile, lastOp, removed, written, closed, uploads>>

\* ------------------------------------------------------ calls side by side

\* The file system has no lock of its own: the protocol layer serves every
\* request in a goroutine, and the calls below interleave at their requests
\* to the store and at their accesses to the cache.

\* Goroutine p moves on to c; the others stay where they are.
Goes(p, c) == procs' = [procs EXCEPT ![p] = c]

\* A call that has ended with err.
Ended(c, err) == [c EXCEPT !.pc = "done", !.err = err]

\* The existence check of Mkdir and of Close, its lookup r1 in: an error
\* other than ErrNotExist ends the call, a name that is taken is ErrExist,
\* anything else goes on to create.
Checked(p, r1, c) ==
  /\ cache' = r1.cache
  /\ Goes(p, IF r1.err # ErrNil /\ r1.err # ErrNotExist THEN Ended(c, r1.err)
             ELSE IF r1.id # "" THEN Ended(c, ErrExist)
             ELSE [c EXCEPT !.pc = "create"])

\* Mkdir and Close up to the answer of getFileID on the name.
RaceCheck(p, op, name, fail) ==
  /\ procs[p].pc = "idle"
  /\ Checked(p, getFileID(cache, <<>>, store, fail, name, FALSE),
             [NoCall EXCEPT !.op = op, !.name = name])
  /\ UNCHANGED <<store, nextId, rfile, rhist, wfile, lastOp, removed, written,
                 closed, uploads>>

\* The outcome m of the rest of Mkdir or Close, taken by goroutine p from c.
Created(p, m, c) ==
  /\ Len(m.store) > Len(store) => nextId <= MaxObjects
  /\ store' = m.store
  /\ nextId' = IF Len(m.store) > Len(store) THEN nextId + 1 ELSE nextId
  /\ cache' = m.cache
  /\ Goes(p, [Ended(c, m.err) EXCEPT
               !.made = Len(m.store) > Len(store),
               !.id = IF Len(m.store) > Len(store) THEN ToString(nextId) ELSE ""])

\* What the call records of the state its create step starts from.
Creating(c, fail) ==
  [c EXCEPT !.fail = fail,
            !.taken = Truth(store, c.name) # Nil,
            !.parentOk = LET par == Truth(store, normalizePath(PathDir(c.name)))
                         IN par # Nil /\ par.folder]

\* Mkdir and Close from the lookup of the parent on: the create request and
\* the two invalidations.
RaceCreate(p, fail) ==
  /\ procs[p].pc = "create"
  /\ Created(p, Create(getFileID(cache, <<>>, store, fail,
                                  PathDir(procs[p].name), TRUE),
                        store, nextId, fail, procs[p].name,
                        procs[p].op = "mkdir",
                        IF procs[p].op = "close" THEN RaceBytes ELSE <<>>),
             Creating(procs[p], fail))
  /\ UNCHANGED <<rfile, rhist, wfile, lastOp, removed, written, closed, uploads>>

\* getFile up to the answer r of getFile0, which the goroutine holds.
Queried(p, r, c) ==
  /\ cache' = r.cache
  /\ Goes(p, [c EXCEPT !.pc = "store", !.fp = r.fp, !.err = r.err])

\* Stat up to the cache.Set of getFile: a cached lookup ends the call, else
\* getFile0 asks the store.
ResolveQuery(p, name, fail) ==
  /\ procs[p].pc = "idle"
  /\ IF CacheHas(cache, cacheKeyFile \o name)
     THEN /\ Goes(p, [Ended([NoCall EXCEPT !.op = "stat", !.name = name],
                             cache[cacheKeyFile \o name].val.err)
                        EXCEPT !.fp = cache[cacheKeyFile \o name].val.fp])
          /\ UNCHANGED cache
     ELSE Queried(p, getFile0(cache, <<>>, store, fail, name, FALSE),
                  [NoCall EXCEPT !.op = "stat", !.name = name])
  /\ UNCHANGED <<store, nextId, rfile, rhist, wfile, lastOp, removed, written,
                 closed, uploads>>

\* The rest of getFile: the answer held is stored when it is no error.
ResolveStore(p) ==
  /\ procs[p].pc = "store"
  /\ cache' = getFileSet(cacheKeyFile \o procs[p].name,
                         Res(procs[p].fp, procs[p].err, cache, <<>>),
                         {ErrNil}, FileTTL).cache
  /\ Goes(p, Ended(procs[p], procs[p].err))
  /\ UNCHANGED <<store, nextId, rfile, rhist, wfile, lastOp, removed, written,
                 closed, uploads>>

\* The lookup r of RemoveAll in: an error ends the call, else the id is held.
Found(p, r, c) ==
  /\ cache' = r.cache
  /\ Goes(p, IF r.err # ErrNil THEN Ended(c, r.err)
             ELSE [c EXCEPT !.pc = "delete", !.id = r.id])

\* RemoveAll up to the answer of getFileID.
RemoveLookup(p, name, fail) ==
  /\ procs[p].pc = "idle"
  /\ Found(p, getFileID(cache, <<>>, store, fail, name, FALSE),
           [NoCall EXCEPT !.op = "remove", !.name = name])
  /\ UNCHANGED <<store, nextId, rfile, rhist, wfile, lastOp, removed, written,
                 closed, uploads>>

\* RemoveAll's Files.Delete of the id held.
RemoveDelete(p, fail) ==
  /\ procs[p].pc = "delete"
  /\ IF CallOk("delete", fail) /\ StoreCanDelete(store, procs[p].id)
     THEN /\ store' = StoreDelete(store, procs[p].id)
          /\ Goes(p, [procs[p] EXCEPT !.pc = "invalidate"])
     ELSE /\ Goes(p, Ended(procs[p], StoreError))
          /\ UNCHANGED store
  /\ UNCHANGED <<nextId, cache, rfile, rhist, wfile, lastOp, removed, written,
                 closed, uploads>>

\* RemoveAll's two invalidations, and its return.
RemoveInvalidate(p) ==
  /\ procs[p].pc = "invalidate"
  /\ cache' = invalidatePath(invalidatePath(cache, procs[p].name),
                             PathDir(procs[p].name))
  /\ removed' = removed \cup {procs[p].id}
  /\ Goes(p, Ended(procs[p], ErrNil))
  /\ UNCHANGED <<store, nextId, rfile, rhist, wfile, lastOp, written, closed,
                 uploads>>

\* The caller of goroutine p takes the answer.
RaceReturn(p) ==
  /\ procs[p].pc = "done"
  /\ Goes(p, NoCall)
  /\ UNCHANGED <<store, nextId, cache, rfile, rhist, wfile, lastOp, removed,
                 written, closed, uploads>>

\* ----------------------------------------------------------- specifications

\* Lookups, listings, folders made and paths removed, over a minute and more.
Next ==
  \/ \E name \in InputPaths, fail \in StatFails : Stat(name, fail)
  \/ \E name \in ListPaths, fail \in ListFails : ListChildren(name, fail)
  \/ \E name \in MkdirPaths, fail \in CreateFails : Mkdir(name, fail)
  \/ \E name \in RemovePaths, fail \in DeleteFails : RemoveAll(name, fail)
  \/ Tick
  \/ Return

Spec == Init /\ [][Next]_vars

\* A file written and closed, while its folder is listed and its path is
\* removed or made a folder.
NextWrite ==
  \/ \E name \in WritePaths : OpenWrite(name)
  \/ \E bytes \in WriteChunks : Write(bytes)
  \/ \E fail \in CloseFails : Close(fail)
  \/ DropWrite
  \/ \E name \in WriteDirs, fail \in ListFails : ListChildren(name, fail)
  \/ \E name \in WritePaths, fail \in CreateFails : Mkdir(name, fail)
  \/ \E name \in WritePaths, fail \in DeleteFails : RemoveAll(name, fail)
  \/ Return

SpecWrite == Init /\ [][NextWrite]_vars

\* Two goroutines: folders made, handles closed, names looked up and removed.
NextRace ==
  \/ \E p \in Procs, op \in {"mkdir", "close"}, name \in RacePaths, fail \in ListFails :
       RaceCheck(p, op, name, fail)
  \/ \E p \in Procs, fail \in CreateFails : RaceCreate(p, fail)
  \/ \E p \in Procs, name \in RacePaths, fail \in ListFails :
       ResolveQuery(p, name, fail)
  \/ \E p \in Procs : ResolveStore(p)
  \/ \E p \in Procs, name \in RacePaths, fail \in ListFails :
       RemoveLookup(p, name, fail)
  \/ \E p \in Procs, fail \in DeleteFails : RemoveDelete(p, fail)
  \/ \E p \in Procs : RemoveInvalidate(p)
  \/ \E p \in Procs : RaceReturn(p)

SpecRace == Init /\ [][NextRace]_vars

\* Lookups by names with and without a slash at the end, around removals.
NextSlash ==
  \/ \E name \in SlashPaths, fail \in StatFails : Stat(name, fail)
  \/ \E name \in MkdirPaths, fail \in CreateFails : Mkdir(name, fail)
  \/ \E name \in SlashPaths, fail \in DeleteFails : RemoveAll(name, fail)
  \/ Tick
  \/ Return

SpecSlash == Init /\ [][NextSlash]_vars

\* A handle opened for reading, read, sought, listed and closed.
NextRead ==
  \/ \E name \in ReadPaths, fail \in OpenFails : OpenRead(name, fail)
  \/ \E len \in 1..MaxBuf, n \in 1..MaxBuf, withEOF \in BOOLEAN, fail \in ReadFails :
       Read(len, n, withEOF, fail)
  \/ \E offset \in SeekOffsets, whence \in SeekWhences : Seek(offset, whence)
  \/ \E count \in ReaddirCounts, fail \in ListFails : Readdir(count, fail)
  \/ CloseRead
  \/ DropRead
  \/ Return

SpecRead == Init /\ [][NextRead]_vars

\* ------------------------------------------------------------------- claims

\* The requests of a call log that change the store.
Mutations(calls) == {i \in 1..Len(calls) : calls[i].op \in {"create", "delete"}}

\* The ids of a set of files.
IdsOf(files) == {f.id : f \in files}

\* The objects this file system created.
CreatedIds == StoreIds(store) \ StoreIds(InitStore)

\* A cache key made of a path, not of a Drive id.
IsPathKey(k) == Len(k) = 1 \/ k[2] \in {SLASH, "."}

\* C1: once RemoveAll(P) has succeeded, no Stat and no listing answers with
\* the object it deleted.
C1_RemovedStaysGone ==
  lastOp.op \in {"stat", "list"} => IdsOf(lastOp.ret) \cap removed = {}

\* C2: a listing answers with every object this file system created in the
\* folder listed.
C2_CreatedIsListed ==
  (lastOp.op = "list" /\ lastOp.err = ErrNil /\ Truth(store, lastOp.p) # Nil)
    => \A i \in 1..Len(store) :
         (store[i].id \in CreatedIds /\ store[i].parent = Truth(store, lastOp.p).id)
           => store[i].id \in IdsOf(lastOp.ret)

\* C3: Mkdir and Close on a path whose parent is missing or is no folder fail
\* and send no create request.
C3_CreateOnlyUnderContainer ==
  (lastOp.op \in {"mkdir", "close"} /\ ~lastOp.parentOk)
    => lastOp.err # ErrNil /\ Creates(lastOp.calls) = {}

\* Every request of a call log was answered.
AllOk(calls) == \A i \in 1..Len(calls) : calls[i].ok

\* C4: Mkdir and Close on a path that resolves to an object answer ErrExist
\* (a store error when a request failed), send no create and no delete
\* request and leave the store as it was.
C4_CreateOnExisting ==
  (lastOp.op \in {"mkdir", "close"} /\ lastOp.resolves)
    => /\ Mutations(lastOp.calls) = {}
       /\ ~lastOp.mutated
       /\ lastOp.err = IF AllOk(lastOp.calls) THEN ErrExist ELSE StoreError

\* Close has refused a name that is taken, with bytes in its buffer.
C4_Witness ==
  /\ lastOp.op = "close" /\ lastOp.resolves /\ lastOp.err = ErrExist
  /\ wfile # Nil /\ wfile.buffer # <<>>

\* The path is the root, "" once normalized.
IsRoot(p) == normalizePath(p) = <<>>

Gets(calls) == {i \in 1..Len(calls) : calls[i].op = "get"}
Queries(calls) ==
  {i \in 1..Len(calls) : calls[i].op = "list" /\ calls[i].name # <<"*">>}

Again(d) == getFile(CacheAge(cache, d), <<>>, store, "none", lastOp.p, FALSE)

HitUntilExpiry ==
  (lastOp.op = "stat" /\ lastOp.err = ErrNil)
    => LET key == cacheKeyFile \o lastOp.p
       IN /\ CacheHas(cache, key)
          /\ ~lastOp.hit => cache[key].ttl = FileTTL
          /\ \A d \in 0..cache[key].ttl :
               /\ Again(d).calls = <<>>
               /\ Again(d).err = ErrNil
               /\ Again(d).fp.file \in lastOp.ret

\* A cached lookup leaves the cache, or loses time to live, only when its
\* path is invalidated or time passes.
KeptUntilInvalidated ==
  \A k \in DOMAIN cache :
    IsPathKey(k) =>
      \/ k \in DOMAIN cache' /\ cache'[k].ttl >= cache[k].ttl
      \/ Tail(k) \in lastOp'.inval
      \/ cache' = CacheAge(cache, TimeStep)

AsksFor(call, p) ==
  IF IsRoot(p) THEN call.op = "get" /\ call.id = "root"
  ELSE call.op = "list" /\ call.name = PathBase(p)

\* C7: a lookup of a path that has just been invalidated sends a request for
\* that path, whatever the cache held.
C7_InvalidateThenResolveQueries ==
  \A p \in lastOp.inval :
    p # <<".">> =>
      LET r == getFile(cache, <<>>, store, "none", p, FALSE)
      IN /\ r.calls # <<>>
         /\ AsksFor(r.calls[Len(r.calls)], p)

\* A path has been removed and invalidated while a listing that warmed its
\* lookup is still cached.
C7_Witness ==
  /\ lastOp.op = "remove" /\ lastOp.err = ErrNil
  /\ \E k \in DOMAIN cache :
       /\ ~IsPathKey(k)
       /\ \E i \in 1..Len(cache[k].val.fp.files) :
            cache[k].val.fp.files[i].id = lastOp.calls[Len(lastOp.calls)].id

RECURSIVE Ancestors(_)
\* The paths above p, up to "/".
Ancestors(p) ==
  IF PathDir(p) = p THEN {} ELSE {PathDir(p)} \cup Ancestors(PathDir(p))

C9_CloseCreatesOnce ==
  /\ lastOp.op = "write" => lastOp.calls = <<>>
  /\ (/\ lastOp.op = "close" /\ lastOp.first
      /\ ~lastOp.existed /\ lastOp.parentOk
      /\ AllOk(lastOp.calls))
       => /\ Cardinality(Creates(lastOp.calls)) = 1
          /\ \A i \in Creates(lastOp.calls) :
               /\ lastOp.calls[i].id = Truth(store, normalizePath(PathDir(lastOp.p))).id
               /\ lastOp.calls[i].name = PathBase(lastOp.p)
               /\ ~lastOp.calls[i].folder
               /\ lastOp.calls[i].content = written

\* C10: no Stat and no listing answers with a trashed file, and no path
\* lookup in the cache holds one.
C10_NoTrashedVisible ==
  /\ \A f \in lastOp.ret :
       /\ ~f.trashed
       /\ \A i \in 1..Len(store) : store[i].id = f.id => ~store[i].trashed
  /\ \A k \in DOMAIN cache : IsPathKey(k) => ~cache[k].val.fp.file.trashed

\* A folder that holds a trashed file has been listed, with an answer.
C10_Witness ==
  /\ lastOp.op = "list" /\ lastOp.err = ErrNil
  /\ \E f \in lastOp.ret :
       \E i \in 1..Len(store) : store[i].trashed /\ store[i].parent = f.parent

\* The bytes of the file the readable handle is on.
Content == StoreObj(store, rfile.file.id).content

\* s is the beginning of t.
IsPrefix(s, t) == Len(s) <= Len(t) /\ SubSeq(t, 1, Len(s)) = s

\* C11: the bytes Read returns after Seek(0, start) begin again at the
\* file's first byte, whatever was read before the Seek.
C11_SeekStartRestarts ==
  (lastOp.op = "read" /\ rhist.rewound /\ CanDownload(store, rfile.file.id))
    => IsPrefix(rhist.got, Content)

\* C12: a Seek that is neither to the start with offset 0 nor to the end
\* fails; to the start with another offset it does not succeed at a position
\* other than the offset.
C12_OtherSeeksFail ==
  (lastOp.op = "seek" /\ lastOp.whence # 2
     /\ ~(lastOp.whence = 0 /\ lastOp.offset = 0))
    => /\ lastOp.err # ErrNil
       /\ lastOp.whence = 0 => (lastOp.err = ErrNil => lastOp.pos = lastOp.offset)

\* C13: Readdir(count) answers with at most count files when count > 0, and
\* with every child that is not trashed when count <= 0.
C13_ReaddirCount ==
  (lastOp.op = "readdir" /\ lastOp.err = ErrNil)
    => IF lastOp.count > 0
       THEN Cardinality(lastOp.ret) <= lastOp.count
       ELSE lastOp.ret = Listed(FilesOf(StoreChildren(store, rfile.file.id)))

\* C15: a Read on a file's handle that has been closed opens no download
\* and returns no byte, and the handle has no reader after it.
C15_ClosedIsTerminal ==
  (lastOp.op = "read" /\ rhist.closed /\ CanDownload(store, rfile.file.id))
    => /\ lastOp.calls = <<>>
       /\ lastOp.data = <<>>
       /\ rfile.contentReader = Nil

\* C20: at the first io.EOF of a handle that was neither sought nor closed,
\* the bytes its Reads returned are the file's bytes, and its position is the
\* number of bytes the stream has produced.
C20_ReadToEndIsWhole ==
  (lastOp.op = "read" /\ lastOp.err = ErrEOF /\ lastOp.first
     /\ ~rhist.seeked /\ ~rhist.closed)
    => /\ rhist.got = Content
       /\ rfile.pos = rfile.contentReader.off

\* C16: over the life of one writable handle, whatever is written, however
\* often it is closed and whatever is removed in between, its Closes create
\* at most one object.
C16_OneCreatePerHandle ==
  wfile # Nil => uploads <= 1

\* C18: an object that went with a container RemoveAll deleted is not what
\* a later Stat of its path answers with.
C18_DescendantsGoWithContainer ==
  (lastOp.op = "stat" /\ IdsOf(lastOp.ret) \cap removed = {})
    => IdsOf(lastOp.ret) \subseteq StoreIds(store) \cup {RootId}

\* The same answer from two lookups: the same error, or the same file.
SameAnswer(r1, r2) ==
  /\ r1.err = r2.err
  /\ r1.err = ErrNil => r1.fp.file = r2.fp.file

\* C17: between calls, Stat of a path and Stat of the path with a slash at
\* its end would answer the same; and a RemoveAll that succeeded leaves no
\* lookup cached for its path with a slash at the end.
C17_SlashIsSamePath ==
  /\ Idle =>
       \A p \in {normalizePath(q) : q \in SlashPaths} :
         SameAnswer(getFile(cache, <<>>, store, "none", p, FALSE),
                    getFile(cache, <<>>, store, "none", p \o <<SLASH>>, FALSE))
  /\ (lastOp.op = "remove" /\ lastOp.err = ErrNil)
       => ~CacheHas(cache, cacheKeyFile \o lastOp.p \o <<SLASH>>)

\* Two objects of the store that one path denotes: the same folder holds
\* both under the same name, neither is trashed.
Duplicates(i, j) ==
  /\ i # j
  /\ store[i].name = store[j].name /\ store[i].parent = store[j].parent
  /\ ~store[i].trashed /\ ~store[j].trashed

\* C14: nothing holds back a Mkdir or a Close that has passed its existence
\* check: when its requests are answered and its parent is a folder it
\* creates its object, also when another call has taken the name since the
\* check.
C14_CheckedCallCreates ==
  \A p \in Procs :
    (/\ procs[p].pc = "done" /\ procs[p].op \in {"mkdir", "close"}
     /\ procs[p].parentOk /\ procs[p].fail = "none")
      => procs[p].made /\ procs[p].err = ErrNil

\* Both goroutines have created the same name side by side, and the store
\* holds the two objects as untrashed siblings.
C14_Witness ==
  \E p \in Procs, q \in Procs :
    /\ p # q
    /\ procs[p].pc = "done" /\ procs[q].pc = "done"
    /\ procs[p].made /\ procs[q].made /\ procs[q].taken
    /\ procs[p].name = procs[q].name
    /\ \E i \in 1..Len(store), j \in 1..Len(store) :
         /\ store[i].id = procs[p].id /\ store[j].id = procs[q].id
         /\ Duplicates(i, j)

\* C19: the cache holds no lookup of an object that a RemoveAll which has
\* returned deleted by its path.
C19_NoDeletedReinstalled ==
  \A k \in DOMAIN cache :
    (IsPathKey(k) /\ cache[k].val.err = ErrNil)
      => cache[k].val.fp.file.id \notin removed

====
